---- MODULE Spec2Model ----
(***************************************************************************)
(* Fetcher resolution and dispatch of hiplot/fetchers.py:                  *)
(*   load_xp_with_fetchers  (the dispatcher, chain of responsibility),     *)
(*   MultipleFetcher        (the recursive "multi://" composite loader),   *)
(*   get_fetchers           (the registry builder).                        *)
(*                                                                         *)
(* A uri is a Python str.  It is modelled as a sequence of tokens, each a  *)
(* TLA+ string standing for a run of characters: the scheme prefixes and   *)
(* file suffixes the loaders test, the JSON punctuation json.loads reads,  *)
(* and the quote character, which carries its level of JSON escaping       *)
(* ("q0" is a bare quote, "q1" a quote escaped once inside a string        *)
(* literal, and so on), so that a nested multi:// uri is what it is in     *)
(* Python: a string literal whose content must be unescaped.               *)
(***************************************************************************)
EXTENDS Naturals, Sequences, FiniteSets, TLC

\* ------------------------------------------------------------------ bounds
\* Most sub-uri entries, summed over all the payloads of a generated uri
\* (a payload entry that is itself a multi:// uri counts, and so do its own).
MaxSubs == 2
\* Most fetcher specs handed to get_fetchers in the registry specification.
MaxAdd == 3
\* Most user-supplied fetchers in the registry a dispatch runs against.
MaxUsers == 1

\* ------------------------------------------------------------ uri strings
\* MultipleFetcher.MULTI_PREFIX
MULTI_PREFIX == "multi://"

\* The quote character under 0, 1, 2, ... levels of JSON string escaping.
Quotes == <<"q0", "q1", "q2", "q3", "q4", "q5">>

IsQuote(tok) == \E k \in 1..Len(Quotes) : Quotes[k] = tok

QuoteLevel(tok) == (CHOOSE k \in 1..Len(Quotes) : Quotes[k] = tok) - 1

\* Tokens that json.loads reads as a number literal (a Python int).
Numbers == {"#7"}

\* isinstance(uri, str): a decoded JSON number is not a string.
IsStr(u) == ~(Len(u) = 1 /\ u[1] \in Numbers)

\* str.startswith(prefix), prefix being one token
StartsWith(u, prefix) == Len(u) >= 1 /\ u[1] = prefix

\* str.endswith(suffix), suffix being one token
EndsWith(u, suffix) == Len(u) >= 1 /\ u[Len(u)] = suffix

\* uri[len(PREFIX):]
StripPrefix(u) == SubSeq(u, 2, Len(u))

\* What the JSON decoder does to the content of a string literal: every
\* escaped quote loses one level of escaping.
Unescape(s) ==
    [i \in 1..Len(s) |->
        IF IsQuote(s[i]) /\ QuoteLevel(s[i]) >= 1
        THEN Quotes[QuoteLevel(s[i])]
        ELSE s[i]]

\* The inverse, used to write a uri inside a JSON string literal.
Escape(s) ==
    [i \in 1..Len(s) |->
        IF IsQuote(s[i]) THEN Quotes[QuoteLevel(s[i]) + 2] ELSE s[i]]

\* -------------------------------------------------------------- json.loads
\* Cut a token sequence at every sep that stands outside a string literal.
\* open tells whether the text ends inside an unterminated literal.
RECURSIVE SplitFrom(_, _, _, _, _, _)
SplitFrom(t, sep, i, inStr, cur, acc) ==
    IF i > Len(t)
    THEN [segs |-> Append(acc, cur), open |-> inStr]
    ELSE IF t[i] = "q0"
         THEN SplitFrom(t, sep, i + 1, ~inStr, Append(cur, t[i]), acc)
         ELSE IF t[i] = sep /\ ~inStr
              THEN SplitFrom(t, sep, i + 1, inStr, <<>>, Append(acc, cur))
              ELSE SplitFrom(t, sep, i + 1, inStr, Append(cur, t[i]), acc)

SplitTop(t, sep) == SplitFrom(t, sep, 1, FALSE, <<>>, <<>>)

\* A JSON string literal: a quote, content holding no bare quote, a quote.
IsStrLit(seg) ==
    /\ Len(seg) >= 2
    /\ seg[1] = "q0"
    /\ seg[Len(seg)] = "q0"
    /\ \A i \in 2..(Len(seg) - 1) : seg[i] # "q0"

StrLitValue(seg) == Unescape(SubSeq(seg, 2, Len(seg) - 1))

IsNumLit(seg) == Len(seg) = 1 /\ seg[1] \in Numbers

\* The payloads read here hold string and number literals only.
IsScalarLit(seg) == IsStrLit(seg) \/ IsNumLit(seg)

ScalarValue(seg) == IF IsStrLit(seg) THEN StrLitValue(seg) ELSE seg

\* A member of a JSON object: a string literal, a colon, a scalar literal.
IsMember(seg) ==
    LET p == SplitTop(seg, ":")
    IN  /\ ~p.open
        /\ Len(p.segs) = 2
        /\ IsStrLit(p.segs[1])
        /\ IsScalarLit(p.segs[2])

MemberKey(seg) == StrLitValue(SplitTop(seg, ":").segs[1])

MemberValue(seg) == ScalarValue(SplitTop(seg, ":").segs[2])

\* A Python dict: an association list with unique keys, in insertion order.
DictHas(d, k) == \E i \in 1..Len(d) : d[i].key = k

\* A buggy dict that appends a second entry under a key it already holds.
DictSetAppend(d, k, v) == Append(d, [key |-> k, val |-> v])

\* d[k] = v: a new key goes last, a key already there keeps its place and
\* takes the new value.
DictSet(d, k, v) ==
    IF DictHas(d, k)
    THEN [i \in 1..Len(d) |-> IF d[i].key = k THEN [key |-> k, val |-> v] ELSE d[i]]
    ELSE Append(d, [key |-> k, val |-> v])

RECURSIVE DictOfMembers(_, _, _)
DictOfMembers(segs, i, d) ==
    IF i > Len(segs)
    THEN d
    ELSE DictOfMembers(segs, i + 1, DictSet(d, MemberKey(segs[i]), MemberValue(segs[i])))

\* json.loads(text): the decoded value, or "invalid" where the decoder raises
\* JSONDecodeError.  type is "list", "dict" or "scalar"; items are the
\* elements of a list (val) or the entries of a dict (key, val).
JsonLoads(t) ==
    LET inner == SubSeq(t, 2, Len(t) - 1)
        parts == SplitTop(inner, ",")
        invalid == [type |-> "invalid", items |-> <<>>]
    IN  IF Len(t) = 0
        THEN invalid
        ELSE IF t[1] = "["
        THEN IF Len(t) < 2 \/ t[Len(t)] # "]" \/ parts.open
             THEN invalid
             ELSE IF Len(inner) = 0
             THEN [type |-> "list", items |-> <<>>]
             ELSE IF \A i \in 1..Len(parts.segs) : IsScalarLit(parts.segs[i])
             THEN [type |-> "list",
                   items |-> [i \in 1..Len(parts.segs) |->
                                 [key |-> <<>>, val |-> ScalarValue(parts.segs[i])]]]
             ELSE invalid
        ELSE IF t[1] = "{"
        THEN IF Len(t) < 2 \/ t[Len(t)] # "}" \/ parts.open
             THEN invalid
             ELSE IF Len(inner) = 0
             THEN [type |-> "dict", items |-> <<>>]
             ELSE IF \A i \in 1..Len(parts.segs) : IsMember(parts.segs[i])
             THEN [type |-> "dict", items |-> DictOfMembers(parts.segs, 1, <<>>)]
             ELSE invalid
        ELSE IF IsScalarLit(t)
        THEN [type |-> "scalar", items |-> <<>>]
        ELSE invalid

\* ------------------------------------------------------- the uris dispatched
\* Writing a multi:// uri: the JSON text of a list or of an object.
StrLit(s) == <<"q0">> \o Escape(s) \o <<"q0">>

RECURSIVE JoinComma(_)
JoinComma(ss) ==
    IF Len(ss) = 0 THEN <<>>
    ELSE IF Len(ss) = 1 THEN ss[1]
    ELSE ss[1] \o <<",">> \o JoinComma(Tail(ss))

MultiList(vals) ==
    <<MULTI_PREFIX, "[">> \o JoinComma([i \in 1..Len(vals) |-> StrLit(vals[i])]) \o <<"]">>

MultiDict(keys, vals) ==
    <<MULTI_PREFIX, "{">>
    \o JoinComma([i \in 1..Len(vals) |-> StrLit(keys[i]) \o <<":">> \o StrLit(vals[i])])
    \o <<"}">>

\* Plain uris that occur as sub-uris: a README demo name and a CSV path.
SubLeaves == {<<"demo">>, <<"f", ".csv">>}

\* Plain uris dispatched at top level only.
TopLeaves == {<<"f", ".json">>, <<"fairseq://", "d">>, <<"w2l://", "d">>, <<"zzz">>}

\* Keys of the mapping form.  A key is opaque to the code, so the first key
\* of a mapping is always the same one; a later key repeats it or not.
Keys == {<<"x">>, <<"y">>}

KeySeqs(n) == {ks \in [1..n -> Keys] : n = 0 \/ ks[1] = <<"x">>}

\* multi:// uris whose payload is not a list or mapping of strings.
Malformed ==
    { <<MULTI_PREFIX>>,
      <<MULTI_PREFIX, "[", "q0", "demo">>,
      <<MULTI_PREFIX, "#7">>,
      <<MULTI_PREFIX, "q0", "demo", "q0">>,
      <<MULTI_PREFIX, "[", "#7", "]">>,
      <<MULTI_PREFIX, "zzz", ".csv">> }

\* Every uri with at most n levels of multi:// nesting and at most b sub-uri
\* entries in all, paired with the number of entries it holds.  b entries
\* allow at most b + 1 levels.
RECURSIVE UrisWithin(_, _)
RECURSIVE ItemSeqs(_, _)
ItemSeqs(n, b) ==
    {[vals |-> <<>>, c |-> 0]} \cup
    (IF b = 0 THEN {}
     ELSE UNION { { [vals |-> <<x.u>> \o r.vals, c |-> 1 + x.c + r.c] :
                        r \in ItemSeqs(n, b - 1 - x.c) } :
                  x \in UrisWithin(n, b - 1) })

UrisWithin(n, b) ==
    {[u |-> l, c |-> 0] : l \in SubLeaves} \cup
    (IF n = 0 THEN {}
     ELSE UNION { {[u |-> MultiList(s.vals), c |-> s.c]} \cup
                  {[u |-> MultiDict(ks, s.vals), c |-> s.c] :
                        ks \in KeySeqs(Len(s.vals))} :
                  s \in ItemSeqs(n - 1, b) })

Uris == {x.u : x \in UrisWithin(MaxSubs + 1, MaxSubs)} \cup TopLeaves \cup Malformed

\* defs = json.loads(uri[len(self.MULTI_PREFIX):]), for every uri that can
\* reach a MultipleFetcher: the generated ones and what their payloads hold.
RECURSIVE Held(_)
Held(u) ==
    IF ~(IsStr(u) /\ StartsWith(u, MULTI_PREFIX))
    THEN {}
    ELSE LET d == JsonLoads(StripPrefix(u))
         IN  UNION { {d.items[n].val} \cup Held(d.items[n].val) : n \in 1..Len(d.items) }

\* Every uri a load_xp_with_fetchers call can be given.
Dispatched == Uris \cup UNION {Held(v) : v \in Uris}

Defs == [u \in Dispatched |-> JsonLoads(StripPrefix(u))]


\* ------------------------------------------------------------ experiments
\* An Experiment is its ordered datapoints; a datapoint is a uid and a value.
\* The data a source holds is one of two values: what the dispatch does never
\* depends on it, and two are enough to tell two Experiments apart.
Vals == {1, 2}

Datapoint(uid, v) == [uid |-> uid, val |-> v]

\* An Experiment as a format loader builds it: one record of the source.
Experiment(v) == <<Datapoint(<<"0">>, v)>>

\* Experiment.merge(xp_dict): the datapoints of every entry, in dict order,
\* each uid namespaced by the key of its entry.
RECURSIVE Merge(_)
Merge(d) ==
    IF Len(d) = 0 THEN <<>>
    ELSE [j \in 1..Len(d[1].val) |->
             Datapoint(d[1].key \o <<"_">> \o d[1].val[j].uid, d[1].val[j].val)]
         \o Merge(Tail(d))

\* -------------------------------------------------- outcomes of a call
NoExc == [type |-> "", arg |-> <<>>, by |-> <<>>, at |-> <<>>]

\* raise type(arg), raised by the callable `by` while it handled the uri `at`
Exc(type, arg, by, at) == [type |-> type, arg |-> arg, by |-> by, at |-> at]

Raises(type, arg, by, at) == [kind |-> "exc", xp |-> <<>>, exc |-> Exc(type, arg, by, at)]

Returns(xp) == [kind |-> "xp", xp |-> xp, exc |-> NoExc]

NoOutcome == [kind |-> "none", xp |-> <<>>, exc |-> NoExc]

\* raise hip.ExperimentFetcherDoesntApply(...)
DoesntApply(by, at) == Raises("ExperimentFetcherDoesntApply", <<>>, by, at)

\* ---------------------------------------------------------------- fetchers
\* A fetcher is named by its qualified name, a token sequence.
F_demo == <<"load_demo">>
F_csv == <<"load_csv">>
F_json == <<"load_json">>
F_fairseq == <<"load_fairseq">>
F_w2l == <<"load_wav2letter">>
F_multi == <<"MultipleFetcher">>
F_dispatch == <<"load_xp_with_fetchers">>

\* The demo registry: the uris that name a README demo.
README_DEMOS == {<<"demo">>}

\* load_demo(uri): the outcomes the call can have.  A demo builds its data
\* afresh at every call.
load_demo(uri) ==
    IF uri \in README_DEMOS
    THEN {Returns(Experiment(v)) : v \in Vals}
    ELSE {DoesntApply(F_demo, uri)}

\* load_csv(uri): a missing file is non-applicability, any other failure of
\* open() or of the reader is not.
load_csv(uri) ==
    IF ~IsStr(uri)
    THEN {Raises("AttributeError", <<>>, F_csv, uri)}
    ELSE IF ~EndsWith(uri, ".csv")
    THEN {DoesntApply(F_csv, uri)}
    ELSE {Returns(Experiment(v)) : v \in Vals}
         \cup {DoesntApply(F_csv, uri), Raises("OSError", <<>>, F_csv, uri)}

\* load_json(uri): a missing or corrupt file is a hard failure.
load_json(uri) ==
    IF ~IsStr(uri)
    THEN {Raises("AttributeError", <<>>, F_json, uri)}
    ELSE IF ~EndsWith(uri, ".json")
    THEN {DoesntApply(F_json, uri)}
    ELSE {Returns(Experiment(v)) : v \in Vals}
         \cup {Raises("FileNotFoundError", <<>>, F_json, uri),
               Raises("JSONDecodeError", <<>>, F_json, uri)}

\* load_fairseq(uri): a directory without a log file is non-applicability.
load_fairseq(uri) ==
    IF ~IsStr(uri)
    THEN {Raises("AttributeError", <<>>, F_fairseq, uri)}
    ELSE IF ~StartsWith(uri, "fairseq://")
    THEN {DoesntApply(F_fairseq, uri)}
    ELSE {Returns(Experiment(v)) : v \in Vals}
         \cup {DoesntApply(F_fairseq, uri),
               Raises("FileNotFoundError", <<>>, F_fairseq, uri)}

\* Wav2letterLoader.__call__(uri): no perf file gives an empty Experiment.
load_wav2letter(uri) ==
    IF ~IsStr(uri)
    THEN {Raises("AttributeError", <<>>, F_w2l, uri)}
    ELSE IF ~StartsWith(uri, "w2l://")
    THEN {DoesntApply(F_w2l, uri)}
    ELSE {Returns(Experiment(v)) : v \in Vals} \cup {Returns(<<>>)}

\* A user-supplied fetcher is any callable honouring the ExperimentFetcher
\* contract: it returns, declines, or fails.
user_fetcher(f, uri) ==
    {Returns(Experiment(v)) : v \in Vals}
    \cup {DoesntApply(f, uri), Raises("FormatError", <<>>, f, uri)}

\* ------------------------------------------------------------ get_fetchers
\* str.split("."): the segments between the dots.
RECURSIVE SplitDots(_, _, _)
SplitDots(s, cur, acc) ==
    IF Len(s) = 0
    THEN Append(acc, cur)
    ELSE IF s[1] = "."
         THEN SplitDots(Tail(s), <<>>, Append(acc, cur))
         ELSE SplitDots(Tail(s), Append(cur, s[1]), acc)

Split(s) == SplitDots(s, <<>>, <<>>)

\* The qualified names a caller may hand to get_fetchers.
AddSpecs == {<<"m", ".", "f">>, <<"p", ".", "m", ".", "g">>, <<"h">>}

RECURSIVE SeqsUpTo(_, _)
SeqsUpTo(S, n) ==
    IF n = 0 THEN {<<>>}
    ELSE SeqsUpTo(S, n - 1) \cup
         {Append(s, e) : s \in {t \in SeqsUpTo(S, n - 1) : Len(t) = n - 1}, e \in S}

\* importlib.import_module(".".join(parts[:-1])): the ways it can end.  The
\* module name of a one-segment spec is empty, which import_module refuses.
ImportOutcomes(parts) ==
    IF Len(parts) = 1
    THEN {"ValueError"}
    ELSE {"ok", "ModuleNotFoundError", "ImportError"}

\* _get_module_by_name_in_cwd(name): the script is there and runs, or not.
CwdOutcomes == {"ok", "FileNotFoundError"}

\* getattr(module, parts[-1])
GetattrOutcomes == {"ok", "AttributeError"}

\* A fallback taken whatever the number of segments.
FallsBackAlways(parts, std) == std = "ModuleNotFoundError"

\* except ModuleNotFoundError: if len(parts) != 2: raise
FallsBack(parts, std) == std = "ModuleNotFoundError" /\ Len(parts) = 2

\* One turn of the loop over add_fetchers, the environment answering std to
\* the import, cwd to the fallback and attr to getattr: the exception that
\* leaves the loop ("" if none) and the calls made.
ResolveSpec(parts, std, cwd, attr) ==
    LET fallback == std # "ok" /\ FallsBack(parts, std)
        module == IF std = "ok" THEN "ok"
                  ELSE IF fallback THEN cwd
                  ELSE std
        exc == IF module # "ok" THEN module
               ELSE IF attr # "ok" THEN attr
               ELSE ""
    IN  [exc |-> exc,
         std |-> std,
         cwd |-> IF fallback THEN cwd ELSE "not called",
         attr |-> IF module = "ok" THEN attr ELSE "not called"]

\* A MultipleFetcher that keeps the list it is given.
MultipleFetcherInitNoSelf(fetchers) == fetchers

\* MultipleFetcher.__init__: self.fetchers = fetchers + [self]
MultipleFetcherInit(fetchers) == fetchers \o <<F_multi>>

\* The built-in loaders, in the order get_fetchers lists them.
Builtins == <<F_demo, F_csv, F_json, F_fairseq, F_w2l>>

\* ------------------------------------------------------------------- state
VARIABLES
    add_fetchers,   \* get_fetchers: its argument
    xp_fetchers,    \* get_fetchers: the list it builds and returns
    gf,             \* get_fetchers: where it stands, and its last loop turn
    mf_fetchers,    \* the MultipleFetcher's self.fetchers
    req,            \* the top-level call load_xp_with_fetchers(L, u)
    stack,          \* the call stack: load_xp_with_fetchers and
                    \* MultipleFetcher.__call__ frames, innermost last
    ctl,            \* what the innermost frame is handed: nothing (it runs),
                    \* or the value or exception its callee ended with
    last_load,      \* the last load_xp_with_fetchers call that ended
    last_multi      \* the last MultipleFetcher.__call__ body that ended

vars == <<add_fetchers, xp_fetchers, gf, mf_fetchers, req, stack, ctl, last_load, last_multi>>

gfVars == <<add_fetchers, xp_fetchers, gf, mf_fetchers>>

NoTurn == [exc |-> "", std |-> "", cwd |-> "", attr |-> ""]

\* get_fetchers when every spec resolves to the fetcher it names: the list
\* returned, and the list the MultipleFetcher holds.
GetFetchers(users) ==
    [returned |-> Append(Builtins \o users, F_multi),
     held |-> MultipleFetcherInit(Builtins \o users)]

NoLoad == [fetchers |-> <<>>, uri |-> <<>>, calls |-> <<>>, outs |-> <<>>,
           out |-> NoOutcome, depth |-> 0]

NoMulti == [uri |-> <<>>, defs |-> <<>>, isList |-> FALSE, fetchers |-> <<>>,
            sent |-> <<>>, got |-> <<>>, acc |-> <<>>, merged |-> FALSE,
            out |-> NoOutcome, depth |-> 0]

\* get_fetchers is entered.
InitRegistry ==
    /\ add_fetchers \in SeqsUpTo(AddSpecs, MaxAdd)
    /\ xp_fetchers = Builtins
    /\ gf = [pc |-> "loop", i |-> 1, turn |-> NoTurn]
    /\ mf_fetchers = <<>>
    /\ req = [L |-> <<>>, u |-> <<>>]
    /\ stack = <<>>
    /\ ctl = [mode |-> "idle", out |-> NoOutcome]
    /\ last_load = NoLoad
    /\ last_multi = NoMulti

\* The user-supplied fetcher of the registries dispatched against.
UserSpec == <<"m", ".", "f">>

\* get_fetchers has returned: the loader list is built once, before any
\* dispatch, and is not changed afterwards.
Init ==
    /\ add_fetchers \in SeqsUpTo({UserSpec}, MaxUsers)
    /\ xp_fetchers = GetFetchers(add_fetchers).returned
    /\ gf = [pc |-> "returned", i |-> Len(add_fetchers) + 1,
             turn |-> IF Len(add_fetchers) = 0 THEN NoTurn
                      ELSE ResolveSpec(Split(UserSpec), "ok", "ok", "ok")]
    /\ mf_fetchers = GetFetchers(add_fetchers).held
    /\ req = [L |-> <<>>, u |-> <<>>]
    /\ stack = <<>>
    /\ ctl = [mode |-> "idle", out |-> NoOutcome]
    /\ last_load = NoLoad
    /\ last_multi = NoMulti

\* for fetcher_spec in add_fetchers: ... xp_fetchers.append(fetcher), or the
\* exception that ends get_fetchers
GetFetchersTurn ==
    /\ gf.pc = "loop"
    /\ gf.i <= Len(add_fetchers)
    /\ \E std \in ImportOutcomes(Split(add_fetchers[gf.i])),
          cwd \in CwdOutcomes, attr \in GetattrOutcomes :
         LET turn == ResolveSpec(Split(add_fetchers[gf.i]), std, cwd, attr)
         IN  /\ gf' = [pc |-> IF turn.exc = "" THEN "loop" ELSE "raised",
                       i |-> gf.i + 1, turn |-> turn]
             /\ xp_fetchers' = IF turn.exc = ""
                               THEN Append(xp_fetchers, add_fetchers[gf.i])
                               ELSE xp_fetchers
    /\ UNCHANGED <<add_fetchers, mf_fetchers, req, stack, ctl, last_load, last_multi>>

\* xp_fetchers.append(MultipleFetcher(xp_fetchers)); return xp_fetchers
GetFetchersReturn ==
    /\ gf.pc = "loop"
    /\ gf.i > Len(add_fetchers)
    /\ mf_fetchers' = MultipleFetcherInit(xp_fetchers)
    /\ xp_fetchers' = Append(xp_fetchers, F_multi)
    /\ gf' = [gf EXCEPT !.pc = "returned"]
    /\ UNCHANGED <<add_fetchers, req, stack, ctl, last_load, last_multi>>

\* -------------------------------------------------- load_xp_with_fetchers
LoadFrame(L, u) ==
    [fn |-> "load", fetchers |-> L, uri |-> u, i |-> 1,
     defs |-> <<>>, isList |-> FALSE, acc |-> <<>>,
     calls |-> <<>>, outs |-> <<>>, sent |-> <<>>, got |-> <<>>]

MultiFrame(L, u, d) ==
    [fn |-> "multi", fetchers |-> L, uri |-> u, i |-> 1,
     defs |-> d.items, isList |-> (d.type = "list"), acc |-> <<>>,
     calls |-> <<>>, outs |-> <<>>, sent |-> <<>>, got |-> <<>>]

Top == stack[Len(stack)]

Pop == SubSeq(stack, 1, Len(stack) - 1)

\* The load_xp_with_fetchers calls in progress, the one of frame k included.
Depth(stk, k) == Cardinality({j \in 1..k : stk[j].fn = "load"})

Running == ctl.mode = "run" /\ Len(stack) > 0

Unwinding == ctl.mode = "unwind" /\ Len(stack) > 0

\* The loader the dispatcher is about to call.
Current == IF Top.i <= Len(Top.fetchers) THEN Top.fetchers[Top.i] ELSE <<>>

\* An except clause that swallows every exception.
CatchesAll(exc) == TRUE

\* An except clause that matches nothing.
CatchesNothing(exc) == FALSE

\* except hip.ExperimentFetcherDoesntApply:
Catches(exc) == exc.type = "ExperimentFetcherDoesntApply"

\* A loop body that calls f(uri) and drops what it returns.
VerdictNoReturn(out) ==
    IF out.kind = "xp" THEN "continue"
    ELSE IF Catches(out.exc) THEN "continue"
    ELSE "raise"

\* A loop body that goes on to the next loader after any exception.
VerdictFallthrough(out) == IF out.kind = "xp" THEN "return" ELSE "continue"

\* try: return f(uri) / except ...: continue -- what the loop body does with
\* the way the call f(uri) ended.
Verdict(out) ==
    IF out.kind = "xp" THEN "return"
    ELSE IF Catches(out.exc) THEN "continue"
    ELSE "raise"

\* A NoFetcherFound that forgets the uri.
NoFetcherFoundBare(uri) == Raises("NoFetcherFound", <<>>, F_dispatch, uri)

\* raise NoFetcherFound(uri)
NoFetcherFound(uri) == Raises("NoFetcherFound", uri, F_dispatch, uri)

Ended(fr, out, depth) ==
    [fetchers |-> fr.fetchers, uri |-> fr.uri, calls |-> fr.calls, outs |-> fr.outs,
     out |-> out, depth |-> depth]

\* The loop body of the innermost load_xp_with_fetchers frame, once the call
\* f(uri) it made has ended with out.
Handle(fr, out) ==
    LET seen == [fr EXCEPT !.outs = Append(@, out)]
    IN  IF Verdict(out) = "continue"
        THEN /\ stack' = Append(Pop, [seen EXCEPT !.i = fr.i + 1])
             /\ ctl' = [mode |-> "run", out |-> NoOutcome]
             /\ UNCHANGED last_load
        ELSE /\ stack' = Pop
             /\ ctl' = [mode |-> "unwind", out |-> out]
             /\ last_load' = Ended(seen, out, Depth(stack, Len(stack)))

\* The call f(uri) of a loader that runs to its end without calling back.
LeafCall(f, outcomes) ==
    /\ Running
    /\ Top.fn = "load"
    /\ Current = f
    /\ \E out \in outcomes : Handle([Top EXCEPT !.calls = Append(@, Top.i)], out)
    /\ UNCHANGED <<gfVars, req, last_multi>>

\* Lists a caller puts together itself: user fetchers, and the MultipleFetcher.
CallerLists ==
    { <<>>,
      <<F_multi>>,
      << <<"m", ".", "f">> >>,
      << <<"m", ".", "f">>, <<"p", ".", "m", ".", "g">> >> }

\* The top-level call load_xp_with_fetchers(L, u).  The list is the one
\* get_fetchers returned, or one the caller put together.
Call ==
    /\ gf.pc = "returned"
    /\ ctl.mode = "idle"
    /\ \E L \in CallerLists \cup {xp_fetchers}, u \in Uris :
         /\ req' = [L |-> L, u |-> u]
         /\ stack' = <<LoadFrame(L, u)>>
    /\ ctl' = [mode |-> "run", out |-> NoOutcome]
    /\ UNCHANGED <<gfVars, last_load, last_multi>>

LoadDemo == LeafCall(F_demo, load_demo(Top.uri))

LoadCsv == LeafCall(F_csv, load_csv(Top.uri))

LoadJson == LeafCall(F_json, load_json(Top.uri))

LoadFairseq == LeafCall(F_fairseq, load_fairseq(Top.uri))

LoadWav2letter == LeafCall(F_w2l, load_wav2letter(Top.uri))

IsUserFetcher(f) == f # <<>> /\ f \notin {F_demo, F_csv, F_json, F_fairseq, F_w2l, F_multi}

UserFetcher ==
    /\ Running
    /\ IsUserFetcher(Current)
    /\ LeafCall(Current, user_fetcher(Current, Top.uri))

\* for f in fetchers: ... falls out of the loop: raise NoFetcherFound(uri)
LoadExhausted ==
    /\ Running
    /\ Top.fn = "load"
    /\ Top.i > Len(Top.fetchers)
    /\ stack' = Pop
    /\ ctl' = [mode |-> "unwind", out |-> NoFetcherFound(Top.uri)]
    /\ last_load' = Ended(Top, NoFetcherFound(Top.uri), Depth(stack, Len(stack)))
    /\ UNCHANGED <<gfVars, req, last_multi>>

\* The MultipleFetcher the frame called has returned or raised.
LoadResume ==
    /\ Unwinding
    /\ Top.fn = "load"
    /\ Handle(Top, ctl.out)
    /\ UNCHANGED <<gfVars, req, last_multi>>

\* ---------------------------------------------------------- MultipleFetcher
\* A MultipleFetcher that declines a payload it cannot parse.
MultiProbeLenient(uri) ==
    IF ~IsStr(uri)
    THEN Raises("AttributeError", <<>>, F_multi, uri)
    ELSE IF ~StartsWith(uri, MULTI_PREFIX)
    THEN DoesntApply(F_multi, uri)
    ELSE IF Defs[uri].type = "invalid"
    THEN DoesntApply(F_multi, uri)
    ELSE IF Defs[uri].type = "scalar"
    THEN Raises("AttributeError", <<>>, F_multi, uri)
    ELSE NoOutcome

\* MultipleFetcher.__call__ up to its comprehension: the way it ends there,
\* or NoOutcome if defs is a list or a dict and the comprehension starts.
\* A uri that is no str has no startswith, a decoded str or int no items().
MultiProbe(uri) ==
    IF ~IsStr(uri)
    THEN Raises("AttributeError", <<>>, F_multi, uri)
    ELSE IF ~StartsWith(uri, MULTI_PREFIX)
    THEN DoesntApply(F_multi, uri)
    ELSE IF Defs[uri].type = "invalid"
    THEN Raises("JSONDecodeError", <<>>, F_multi, uri)
    ELSE IF Defs[uri].type = "scalar"
    THEN Raises("AttributeError", <<>>, F_multi, uri)
    ELSE NoOutcome

\* The key a resolved sub-experiment is stored under: {v: ... for v in defs}
\* for a list, {k: ... for k, v in defs.items()} for a dict.
EntryKey(fr) == IF fr.isList THEN fr.defs[fr.i].val ELSE fr.defs[fr.i].key

\* A comprehension that dispatches the whole uri again.
SubUriWhole(fr) == fr.uri

\* The sub-uri the comprehension hands to load_xp_with_fetchers.
SubUri(fr) == fr.defs[fr.i].val

\* MultipleFetcher.__call__ is called and gets as far as its comprehension
\* (then its frame is entered), or ends before, by an exception.
MultipleFetcherCall ==
    /\ Running
    /\ Top.fn = "load"
    /\ Current = F_multi
    /\ \/ /\ MultiProbe(Top.uri).kind = "none"
          /\ stack' = Append(Append(Pop, [Top EXCEPT !.calls = Append(@, Top.i)]),
                             MultiFrame(mf_fetchers, Top.uri, Defs[Top.uri]))
          /\ UNCHANGED <<ctl, last_load>>
       \/ /\ MultiProbe(Top.uri).kind # "none"
          /\ Handle([Top EXCEPT !.calls = Append(@, Top.i)], MultiProbe(Top.uri))
    /\ UNCHANGED <<gfVars, req, last_multi>>

\* The comprehension reaches its next entry:
\* load_xp_with_fetchers(self.fetchers, v)
MultiIter ==
    /\ Running
    /\ Top.fn = "multi"
    /\ Top.i <= Len(Top.defs)
    /\ stack' = Append(Append(Pop, [Top EXCEPT !.sent = Append(@, SubUri(Top))]),
                       LoadFrame(Top.fetchers, SubUri(Top)))
    /\ UNCHANGED <<gfVars, req, ctl, last_load, last_multi>>

EndedMulti(fr, merged, out, depth) ==
    [uri |-> fr.uri, defs |-> fr.defs, isList |-> fr.isList, fetchers |-> fr.fetchers,
     sent |-> fr.sent, got |-> fr.got, acc |-> fr.acc, merged |-> merged,
     out |-> out, depth |-> depth]

\* The call the comprehension made has ended: its Experiment is stored under
\* the entry's key, its exception leaves __call__.
MultiResume ==
    /\ Unwinding
    /\ Top.fn = "multi"
    /\ IF ctl.out.kind = "xp"
       THEN /\ stack' = Append(Pop, [Top EXCEPT
                                        !.acc = DictSet(@, EntryKey(Top), ctl.out.xp),
                                        !.got = Append(@, ctl.out.xp),
                                        !.i = Top.i + 1])
            /\ ctl' = [mode |-> "run", out |-> NoOutcome]
            /\ UNCHANGED last_multi
       ELSE /\ stack' = Pop
            /\ UNCHANGED ctl
            /\ last_multi' = EndedMulti(Top, FALSE, ctl.out, Depth(stack, Len(stack)))
    /\ UNCHANGED <<gfVars, req, last_load>>

\* The comprehension is through: return hip.Experiment.merge({...})
MultiMerge ==
    /\ Running
    /\ Top.fn = "multi"
    /\ Top.i > Len(Top.defs)
    /\ stack' = Pop
    /\ ctl' = [mode |-> "unwind", out |-> Returns(Merge(Top.acc))]
    /\ last_multi' = EndedMulti(Top, TRUE, Returns(Merge(Top.acc)),
                                Depth(stack, Len(stack)))
    /\ UNCHANGED <<gfVars, req, last_load>>

\* The top-level call has returned or raised to its caller.
Deliver ==
    /\ ctl.mode = "unwind"
    /\ Len(stack) = 0
    /\ ctl' = [ctl EXCEPT !.mode = "done"]
    /\ UNCHANGED <<gfVars, req, stack, last_load, last_multi>>

\* The registry builder alone.
NextRegistry ==
    \/ GetFetchersTurn
    \/ GetFetchersReturn

RegistrySpec == InitRegistry /\ [][NextRegistry]_vars

\* A step of a call in progress.
Step ==
    \/ LoadDemo
    \/ LoadCsv
    \/ LoadJson
    \/ LoadFairseq
    \/ LoadWav2letter
    \/ UserFetcher
    \/ MultipleFetcherCall
    \/ LoadExhausted
    \/ LoadResume
    \/ MultiIter
    \/ MultiResume
    \/ MultiMerge
    \/ Deliver

\* Dispatches against a built registry.
Next == Call \/ Step

Spec == Init /\ [][Next]_vars

\* The calls are synchronous: a call in progress takes its next step.
FairSpec == Spec /\ WF_vars(Step)

\* ------------------------------------------------------------- vocabulary
IsDecline(out) == out.kind = "exc" /\ out.exc.type = "ExperimentFetcherDoesntApply"

IsHard(out) == out.kind = "exc" /\ out.exc.type # "ExperimentFetcherDoesntApply"

IsNoFetcherFound(out) == out.kind = "exc" /\ out.exc.type = "NoFetcherFound"

\* A load_xp_with_fetchers call has ended, and last_load describes it.
LoadEnded == last_load.out.kind # "none"

\* A MultipleFetcher.__call__ comprehension has ended, and last_multi describes it.
MultiEnded == last_multi.out.kind # "none"

UpTo(n) == [j \in 1..n |-> j]

Points(xp) == {xp[n] : n \in 1..Len(xp)}

\* The datapoint d of the sub-experiment merged under key k.
Namespaced(k, d) == Datapoint(k \o <<"_">> \o d.uid, d.val)

\* The sub-uris held in the payload of u, and in the payloads of those.
SubUris == [u \in Dispatched |-> Held(u)]

SubUrisOf(u) == SubUris[u]

\* How deep multi:// payloads nest inside u: 0 for a plain uri.
RECURSIVE NestingDepth(_)
NestingDepth(u) ==
    IF ~(IsStr(u) /\ StartsWith(u, MULTI_PREFIX))
    THEN 0
    ELSE LET d == JsonLoads(StripPrefix(u))
             below == {NestingDepth(d.items[n].val) : n \in 1..Len(d.items)} \cup {0}
         IN  1 + CHOOSE m \in below : \A k \in below : k <= m

Nesting == [u \in Dispatched |-> NestingDepth(u)]

\* ------------------------------------------------------------------ claims
\* C1. First match wins: if loader i of a call is the first that returns an
\* Experiment, all loaders before it having declined, the call returns that
\* very Experiment, loaders 1..i were each called once, in list order, with
\* the call's uri, and no later loader was called.
C1_FirstMatchWins ==
    LoadEnded =>
        \A i \in 1..Len(last_load.outs) :
            ( /\ last_load.outs[i].kind = "xp"
              /\ \A j \in 1..(i - 1) : IsDecline(last_load.outs[j]) )
            => /\ last_load.out = last_load.outs[i]
               /\ Len(last_load.outs) = i
               /\ last_load.calls = UpTo(i)
               /\ \A j \in 1..(i - 1) :
                    /\ last_load.outs[j].exc.by = last_load.fetchers[j]
                    /\ last_load.outs[j].exc.at = last_load.uri

\* A call returned the Experiment of a loader that is neither the first nor
\* the last of its list.
C1_Witness ==
    /\ LoadEnded
    /\ last_load.out.kind = "xp"
    /\ Len(last_load.calls) >= 2
    /\ Len(last_load.calls) < Len(last_load.fetchers)
    /\ last_load.out = last_load.outs[Len(last_load.outs)]

\* C2. Exhaustion: a call all of whose loaders declined, the empty list
\* included, fails with NoFetcherFound carrying exactly the call's uri, every
\* loader of the list having been called once.
C2_Exhaustion ==
    ( /\ LoadEnded
      /\ \A j \in 1..Len(last_load.outs) : IsDecline(last_load.outs[j]) )
    => /\ IsNoFetcherFound(last_load.out)
       /\ last_load.out.exc.arg = last_load.uri
       /\ last_load.calls = UpTo(Len(last_load.fetchers))
       /\ Len(last_load.outs) = Len(last_load.fetchers)

\* The list get_fetchers built was exhausted.
C2_Witness ==
    /\ LoadEnded
    /\ last_load.fetchers = xp_fetchers
    /\ Len(last_load.outs) = Len(xp_fetchers)
    /\ \A j \in 1..Len(last_load.outs) : IsDecline(last_load.outs[j])
    /\ IsNoFetcherFound(last_load.out)

\* C3 as claimed: if the first loader that does not decline raises another
\* failure, the call ends with that failure, the loader was called once, no
\* later loader was called, and the outcome is never NoFetcherFound nor an
\* Experiment.
C3_AsClaimed ==
    LoadEnded =>
        \A i \in 1..Len(last_load.outs) :
            ( /\ IsHard(last_load.outs[i])
              /\ \A j \in 1..(i - 1) : IsDecline(last_load.outs[j]) )
            => /\ last_load.out = last_load.outs[i]
               /\ Len(last_load.outs) = i
               /\ last_load.calls = UpTo(i)
               /\ ~IsNoFetcherFound(last_load.out)
               /\ last_load.out.kind # "xp"

\* C3. Hard errors are not fallthrough: if the first loader that does not
\* decline raises another failure, the call ends with that same failure,
\* unchanged, the loader was called once and no later loader was called; the
\* outcome is no Experiment and no NoFetcherFound of this call's own (it is a
\* NoFetcherFound only when that is the failure the MultipleFetcher raised,
\* from a nested dispatch, for another uri).
C3_HardErrorPropagates ==
    LoadEnded =>
        \A i \in 1..Len(last_load.outs) :
            ( /\ IsHard(last_load.outs[i])
              /\ \A j \in 1..(i - 1) : IsDecline(last_load.outs[j]) )
            => /\ last_load.out = last_load.outs[i]
               /\ Len(last_load.outs) = i
               /\ last_load.calls = UpTo(i)
               /\ last_load.out.kind # "xp"
               /\ IsNoFetcherFound(last_load.out) =>
                    /\ last_load.fetchers[i] = F_multi
                    /\ last_load.out.exc.at # last_load.uri
                    /\ last_load.out.exc.arg # last_load.uri

\* A loader in the middle of the list failed on its own and the call ended
\* with its failure.
C3_Witness ==
    /\ LoadEnded
    /\ IsHard(last_load.out)
    /\ ~IsNoFetcherFound(last_load.out)
    /\ Len(last_load.calls) >= 2
    /\ Len(last_load.calls) < Len(last_load.fetchers)
    /\ last_load.out.exc.by = last_load.fetchers[Len(last_load.calls)]

\* Every sub-uri of a comprehension is dispatched through the list the
\* MultipleFetcher holds.
SubDispatchThroughFullList ==
    \A k \in 1..(Len(stack) - 1) :
        stack[k].fn = "multi" =>
            /\ stack[k + 1].fn = "load"
            /\ stack[k + 1].fetchers = mf_fetchers
            /\ stack[k + 1].uri = stack[k].defs[stack[k].i].val
            /\ stack[k].sent = [j \in 1..stack[k].i |-> stack[k].defs[j].val]

\* The entries of a list payload after which the same sub-uri does not come again.
IsLastOccurrence(m, j) ==
    \A j2 \in (j + 1)..Len(m.defs) : m.defs[j2].val # m.defs[j].val

\* C4 as claimed: the merge of a list payload holds the datapoints of every
\* resolved sub-experiment, one per list element, repeated sub-uris included.
C4_AsClaimed ==
    (MultiEnded /\ last_multi.merged /\ last_multi.isList) =>
        /\ Len(last_multi.got) = Len(last_multi.defs)
        /\ \A j \in 1..Len(last_multi.defs) :
             \A d \in Points(last_multi.got[j]) :
                Namespaced(last_multi.defs[j].val, d) \in Points(last_multi.out.xp)

\* C4. List form: every element of the list, in order, is dispatched through
\* the full loader list; the dict handed to Experiment.merge is keyed by
\* sub-uri and holds, for each distinct sub-uri, the Experiment of its last
\* occurrence in the list; the merged Experiment holds exactly the datapoints
\* of those, namespaced by sub-uri.
C4_ListMerge ==
    /\ SubDispatchThroughFullList
    /\ (MultiEnded /\ last_multi.merged /\ last_multi.isList) =>
        /\ last_multi.sent = [j \in 1..Len(last_multi.defs) |-> last_multi.defs[j].val]
        /\ Len(last_multi.got) = Len(last_multi.defs)
        /\ \A j \in 1..Len(last_multi.defs) :
             IsLastOccurrence(last_multi, j) =>
                \E e \in 1..Len(last_multi.acc) :
                    /\ last_multi.acc[e].key = last_multi.defs[j].val
                    /\ last_multi.acc[e].val = last_multi.got[j]
        /\ Len(last_multi.acc) =
             Cardinality({last_multi.defs[j].val : j \in 1..Len(last_multi.defs)})
        /\ Points(last_multi.out.xp) =
             UNION { {Namespaced(last_multi.defs[j].val, d) : d \in Points(last_multi.got[j])} :
                     j \in {j2 \in 1..Len(last_multi.defs) : IsLastOccurrence(last_multi, j2)} }

\* A list that names one sub-uri twice was merged, the two dispatches having
\* resolved to different Experiments.
C4_Witness ==
    /\ MultiEnded
    /\ last_multi.merged
    /\ last_multi.isList
    /\ \E j \in 1..Len(last_multi.defs), j2 \in 1..Len(last_multi.defs) :
         /\ j < j2
         /\ last_multi.defs[j].val = last_multi.defs[j2].val
         /\ last_multi.got[j] # last_multi.got[j2]

\* A MultipleFetcher call of the top-level call has failed or is failing.
FailureUnderMulti ==
    /\ ctl.mode = "unwind"
    /\ ctl.out.kind = "exc"
    /\ Len(stack) > 0
    /\ \/ \E k \in 1..Len(stack) : stack[k].fn = "multi"
       \/ last_multi.out.kind = "exc"

C5_Step ==
    FailureUnderMulti =>
        /\ ctl' = ctl
        /\ stack' = Pop
        /\ Top.fn = "multi" =>
             /\ last_multi'.uri = Top.uri
             /\ last_multi'.out = ctl.out
             /\ ~last_multi'.merged
             /\ last_multi'.sent = [j \in 1..Top.i |-> Top.defs[j].val]
             /\ Len(last_multi'.got) = Top.i - 1
        /\ Top.fn = "load" =>
             /\ last_load'.uri = Top.uri
             /\ last_load'.out = ctl.out

C5_Final ==
    (ctl.mode = "done" /\ last_multi.out.kind = "exc") =>
        /\ ctl.out = last_multi.out
        /\ ~last_multi.merged

\* C5. All or nothing: once the dispatch of a sub-uri has failed, every step
\* hands the same failure, unchanged, one frame further out -- out of the
\* MultipleFetcher, whose merge is not called and which dispatches no later
\* sub-uri, and out of every enclosing dispatcher -- and the top-level call
\* ends with that failure, not with an Experiment.
C5_AllOrNothing == [][C5_Step]_vars /\ []C5_Final

\* The first sub-uri of two failed: the second was never dispatched and the
\* call ended with the failure.
C5_Witness ==
    /\ ctl.mode = "done"
    /\ last_multi.out.kind = "exc"
    /\ ctl.out = last_multi.out
    /\ Len(last_multi.sent) < Len(last_multi.defs)

\* The calls of the MultipleFetcher that a frame or an ended call has seen end.
MultiOutcomes(r) ==
    {r.outs[j] : j \in {j2 \in 1..Len(r.outs) : r.fetchers[r.calls[j2]] = F_multi}}

\* C6. The prefix is the sole applicability gate: the MultipleFetcher
\* declines a uri if and only if the uri does not start with multi://, and a
\* dispatch of a uri with the prefix through a list holding the
\* MultipleFetcher never ends in NoFetcherFound carrying that uri.
C6_PrefixIsSoleGate ==
    /\ \A k \in 1..Len(stack) :
         \A out \in MultiOutcomes(stack[k]) :
            IsDecline(out) <=> ~StartsWith(stack[k].uri, MULTI_PREFIX)
    /\ LoadEnded =>
         /\ \A out \in MultiOutcomes(last_load) :
              IsDecline(out) <=> ~StartsWith(last_load.uri, MULTI_PREFIX)
         /\ ( /\ StartsWith(last_load.uri, MULTI_PREFIX)
              /\ \E j \in 1..Len(last_load.fetchers) : last_load.fetchers[j] = F_multi )
            => ~(IsNoFetcherFound(last_load.out) /\ last_load.out.exc.arg = last_load.uri)

\* Every other loader declined a uri with the prefix and an unparsable
\* payload, and the call ended with the decoder's failure.
C6_Witness ==
    /\ LoadEnded
    /\ StartsWith(last_load.uri, MULTI_PREFIX)
    /\ last_load.fetchers = xp_fetchers
    /\ Len(last_load.outs) = Len(xp_fetchers)
    /\ last_load.out.exc.type = "JSONDecodeError"
    /\ last_load.out.exc.by = F_multi

\* C7 as claimed: a call that ends in NoFetcherFound has seen every loader of
\* its list decline, and the failure carries the call's own uri.
C7_AsClaimed ==
    (LoadEnded /\ IsNoFetcherFound(last_load.out)) =>
        /\ last_load.out.exc.arg = last_load.uri
        /\ Len(last_load.outs) = Len(last_load.fetchers)
        /\ \A j \in 1..Len(last_load.outs) : IsDecline(last_load.outs[j])

\* C7. A call that ends in NoFetcherFound either exhausted its own list --
\* every loader declined and the failure carries the call's uri -- or its
\* MultipleFetcher handed on the NoFetcherFound of a nested dispatch, which
\* carries the sub-uri, held in the payload of the call's uri, that exhausted
\* the nested list.
C7_NoFetcherFoundOrigin ==
    (LoadEnded /\ IsNoFetcherFound(last_load.out)) =>
        /\ last_load.out.exc.arg = last_load.out.exc.at
        /\ \/ /\ last_load.out.exc.arg = last_load.uri
              /\ Len(last_load.outs) = Len(last_load.fetchers)
              /\ \A j \in 1..Len(last_load.outs) : IsDecline(last_load.outs[j])
           \/ /\ last_load.out.exc.arg # last_load.uri
              /\ last_load.out.exc.arg \in SubUrisOf(last_load.uri)
              /\ last_load.fetchers[Len(last_load.calls)] = F_multi
              /\ last_load.outs[Len(last_load.outs)] = last_load.out
              /\ \A j \in 1..(Len(last_load.outs) - 1) : IsDecline(last_load.outs[j])

\* A call on a multi:// uri ended in the NoFetcherFound of one of its sub-uris.
C7_Witness ==
    /\ LoadEnded
    /\ IsNoFetcherFound(last_load.out)
    /\ last_load.out.exc.arg # last_load.uri
    /\ last_load.fetchers = xp_fetchers

\* C8. Registry shape: get_fetchers returns the built-ins in their fixed
\* order, then the user-supplied loaders in the order given, then one
\* MultipleFetcher, last; and the list that MultipleFetcher holds is the
\* returned list, element for element.
C8_RegistryShape ==
    gf.pc = "returned" =>
        /\ xp_fetchers = <<F_demo, F_csv, F_json, F_fairseq, F_w2l>>
                         \o add_fetchers \o <<F_multi>>
        /\ mf_fetchers = xp_fetchers
        /\ \A j \in 1..Len(xp_fetchers) :
             xp_fetchers[j] = F_multi <=> j = Len(xp_fetchers)

\* get_fetchers returned with two different user-supplied loaders.
C8_Witness ==
    /\ gf.pc = "returned"
    /\ Len(add_fetchers) >= 2
    /\ add_fetchers[1] # add_fetchers[2]
    /\ Len(mf_fetchers) = Len(Builtins) + Len(add_fetchers) + 1

\* The spec the last loop turn of get_fetchers worked on.
TurnParts == Split(add_fetchers[gf.i - 1])

TurnTaken == gf.i > 1

\* C9 as claimed: whenever the standard import fails and the spec has exactly
\* two segments, the script of that name in the working directory is loaded.
C9_AsClaimed ==
    (TurnTaken /\ gf.turn.std # "ok" /\ Len(TurnParts) = 2) =>
        gf.turn.cwd # "not called"

\* C9. Registry resolution: the standard import is tried first; the script in
\* the working directory is loaded if and only if that import fails with
\* ModuleNotFoundError and the spec has exactly two segments; any other
\* failure -- another import failure, an import failure of a spec with
\* another number of segments, a failing fallback, a missing attribute --
\* ends get_fetchers with that failure, no MultipleFetcher built and no list
\* returned.
C9_ResolutionFallback ==
    /\ TurnTaken =>
        /\ gf.turn.std # ""
        /\ gf.turn.cwd # "not called" <=>
             (gf.turn.std = "ModuleNotFoundError" /\ Len(TurnParts) = 2)
        /\ gf.turn.exc = "" <=>
             /\ gf.turn.std = "ok" \/ gf.turn.cwd = "ok"
             /\ gf.turn.attr = "ok"
        /\ gf.turn.exc # "" <=> gf.pc = "raised"
        /\ gf.turn.exc = "" =>
             xp_fetchers[Len(Builtins) + gf.i - 1] = add_fetchers[gf.i - 1]
    /\ gf.pc = "raised" =>
        /\ mf_fetchers = <<>>
        /\ Len(xp_fetchers) = Len(Builtins) + gf.i - 2
        /\ gf.turn.exc \in {gf.turn.std, gf.turn.cwd, gf.turn.attr}
    /\ gf.pc = "returned" => (gf.i = Len(add_fetchers) + 1 /\ gf.turn.exc = "")

\* A two-segment spec whose module was not found was resolved from the
\* script in the working directory.
C9_Witness ==
    /\ TurnTaken
    /\ Len(TurnParts) = 2
    /\ gf.turn.std = "ModuleNotFoundError"
    /\ gf.turn.cwd = "ok"
    /\ gf.turn.exc = ""
    /\ gf.pc = "loop"

\* The nested dispatcher calls in progress.
CallDepth == Depth(stack, Len(stack))

DepthBounded == Len(stack) > 0 => CallDepth <= Nesting[req.u] + 1

\* C10. Bounded recursion and termination: against a list get_fetchers
\* built, every call ends -- with an Experiment or with a failure -- and the
\* dispatcher calls nested through the MultipleFetcher are never more than
\* the nesting depth of the multi:// payloads of the uri, plus one; each
\* dispatched sub-uri is held in the payload of the uri being resolved.
\* A call in progress (ctl.mode "run" or "unwind") leaves that mode only by
\* ending ("done"), so "every call ends" is: no behaviour stays in progress.
C10_BoundedRecursion ==
    /\ [](DepthBounded)
    /\ [](\A k \in 2..Len(stack) :
            stack[k].fn = "load" => stack[k].uri \in SubUrisOf(req.u))
    /\ [](ctl.mode = "done" => ctl.out.kind \in {"xp", "exc"})
    /\ []<>(ctl.mode \in {"idle", "done"})

\* A dispatch two levels inside the top-level call, against the registry.
C10_Witness ==
    /\ CallDepth = 3
    /\ Nesting[req.u] = 2
    /\ req.L = xp_fetchers
====
